---------------------------- MODULE Spec2Model ----------------------------
(***************************************************************************)
(* Recipe-sharing service: credential issuance and verification, identity  *)
(* resolution and the ownership-scoped operations on the "users" and       *)
(* "recipes" collections (app/api/dependencies.py, app/api/endpoints).     *)
(*                                                                         *)
(* The document store is modelled by the semantics of the pymongo calls    *)
(* the handlers make (find_one, insert_one, update_one, delete_one,        *)
(* delete_many, update_many); the JWT library by the claims it encodes,    *)
(* the signature it checks and the whole-second expiry it compares.        *)
(*                                                                         *)
(* A request is one step (Spec and its parts SpecStore, SpecAuth,          *)
(* SpecGate, SpecIds, SpecReuse), or, where requests run at the same time, *)
(* one store call per step (SpecConc).                                     *)
(***************************************************************************)
EXTENDS Integers, Sequences, FiniteSets, TLC

(***************************************************************************)
(* Bounds of the model.                                                    *)
(***************************************************************************)
MaxOid == 5        \* ObjectIds generated in one behaviour
MaxTokens == 1     \* tokens kept by the client of one user
MaxTick == 1       \* clock instants sampled after 0 and after the expiry
MaxCalls == 2      \* requests handled at the same time

(***************************************************************************)
(* Program constants.                                                      *)
(***************************************************************************)
WEEK_SECONDS == 604800     \* timedelta(weeks=1)
HTTP_200_OK == 200
HTTP_400_BAD_REQUEST == 400
HTTP_401_UNAUTHORIZED == 401
HTTP_404_NOT_FOUND == 404
HTTP_500_INTERNAL_SERVER_ERROR == 500

(***************************************************************************)
(* The clock counts ticks of half a second: datetime.utcnow() has          *)
(* sub-second resolution, the "exp" claim of a token has not.              *)
(***************************************************************************)
TicksPerSecond == 2

Usernames == {"alice", "bob"}
Passwords == {"pw1", "pw2"}
Titles == {"Soup", "Stew"}
IngredientLists == {<<"water", "salt">>}
InstructionTexts == {"boil"}
CategoryLists == {<<"easy">>}
CommentTexts == {"nice"}

NoUsername == "-"          \* None where a username is expected
NoOid == 0                 \* no ObjectId: an _id projected out by {'_id': 0}

(***************************************************************************)
(* Identifiers as the strings of a request path: the 24 hex digits of an   *)
(* ObjectId, or text that is no ObjectId.                                  *)
(***************************************************************************)
OidStr(oid) == <<"oid", oid>>
MalformedId == <<"not-an-objectid", 0>>
UnknownId == OidStr(MaxOid + 1)      \* well formed, and of no document

secret_key == "SECRET_KEY"


(***************************************************************************)
(* Password hasher: passlib's CryptContext(schemes=['bcrypt']).  A hash    *)
(* names its scheme and salt and carries the digest of salt and secret;    *)
(* verify recomputes the digest from the salt kept in the hash.            *)
(***************************************************************************)
Salts == {"salt1"}
Digest(salt, secret) == <<"digest", salt, secret>>
password_context_hash(secret, salt) ==
    [scheme |-> "bcrypt", salt |-> salt, digest |-> Digest(salt, secret)]
password_context_verify(secret, hash) ==
    hash.scheme = "bcrypt" /\ hash.digest = Digest(hash.salt, secret)

(***************************************************************************)
(* Token service: python-jose.  jwt.encode writes a datetime "exp" claim   *)
(* as whole seconds since the epoch and signs the claims with the key;     *)
(* jwt.decode checks the signature over the claims it is given and raises  *)
(* ExpiredSignatureError when exp < now, now in whole seconds.             *)
(***************************************************************************)
ToSeconds(ticks) == ticks \div TicksPerSecond
Sign(key, username, exp) == [key |-> key, username |-> username, exp |-> exp]
jwt_encode(username, expire) ==
    [username |-> username,
     exp |-> ToSeconds(expire),
     mac |-> Sign(secret_key, username, ToSeconds(expire))]
\* mutant: the expiry of the token is not checked
jwt_decode_ok_no_expiry(token, clock) ==
    token.mac = Sign(secret_key, token.username, token.exp)
jwt_decode_ok(token, clock) ==
    /\ token.mac = Sign(secret_key, token.username, token.exp)
    /\ ~(token.exp < ToSeconds(clock))

create_jwt_token(username, clock) ==
    jwt_encode(username, clock + WEEK_SECONDS * TicksPerSecond)

NoToken == [username |-> NoUsername, exp |-> 0, mac |-> Sign("-", NoUsername, 0)]

(***************************************************************************)
(* Documents.  A recipe document holds the five fields of the Recipe       *)
(* model and its _id; the "comments" key exists only once a comment was    *)
(* pushed (has_comments).                                                  *)
(***************************************************************************)
RecipePayloads == [title : Titles, author : Usernames, ingredients : IngredientLists,
                   instructions : InstructionTexts, categories : CategoryLists]
NoRecipe == [title |-> "-", author |-> NoUsername, ingredients |-> <<>>,
             instructions |-> "-", categories |-> <<>>]
NoDoc == [id |-> NoOid, title |-> "-", author |-> NoUsername, ingredients |-> <<>>,
          instructions |-> "-", categories |-> <<>>,
          has_comments |-> FALSE, comments |-> <<>>]

\* recipe.model_dump() as inserted by insert_one, which adds the _id
RecipeDoc(oid, recipe) ==
    [id |-> oid, title |-> recipe.title, author |-> recipe.author,
     ingredients |-> recipe.ingredients, instructions |-> recipe.instructions,
     categories |-> recipe.categories, has_comments |-> FALSE, comments |-> <<>>]
\* the five fields of a document, as a Recipe
RecipeOf(doc) ==
    [title |-> doc.title, author |-> doc.author, ingredients |-> doc.ingredients,
     instructions |-> doc.instructions, categories |-> doc.categories]
\* {'$set': recipe.model_dump()}
SetRecipe(doc, recipe) ==
    [doc EXCEPT !.title = recipe.title, !.author = recipe.author,
                !.ingredients = recipe.ingredients,
                !.instructions = recipe.instructions,
                !.categories = recipe.categories]
\* the projection {'_id': 0}
WithoutId(doc) == [doc EXCEPT !.id = NoOid]

Comment(id, content, author) == [id |-> id, content |-> content, author |-> author]

\* {'$pull': {'comments': {'author': username}}}: the comments of other authors, in order
RECURSIVE PullComments(_, _)
PullComments(comments, username) ==
    IF comments = <<>> THEN <<>>
    ELSE IF Head(comments).author = username
         THEN PullComments(Tail(comments), username)
         ELSE <<Head(comments)>> \o PullComments(Tail(comments), username)

VARIABLES
    users,     \* users_collection: documents [id, username, password]
    recipes,   \* recipes_collection: recipe documents
    oid_count, \* ObjectIds generated so far
    now,       \* datetime.utcnow(), in ticks
    tokens,    \* tokens issued and kept by clients: [tok, at] (at: the instant of issue)
    resp,      \* the last request and its response
    inflight   \* the requests being handled, one store call at a time: [pc, req]

vars == <<users, recipes, oid_count, now, tokens, resp, inflight>>


(***************************************************************************)
(* The instants the clock is sampled at: the first ticks, and the ticks    *)
(* from one week on.                                                       *)
(***************************************************************************)
Times ==
    (0..MaxTick) \cup
    {WEEK_SECONDS * TicksPerSecond + d : d \in 0..(TicksPerSecond + MaxTick - 1)}

NoIdString == <<"-", 0>>
NoUserDoc == [id |-> NoOid, username |-> NoUsername,
              password |-> password_context_hash("-", "-")]

\* a request not answered yet: the fields of resp a handler does not set;
\* calls lists the calls on the collections the handler made, in their order
Request(op) ==
    [op |-> op, status |-> HTTP_200_OK, detail |-> "",
     actor |-> NoUsername, username |-> NoUsername, password |-> "-",
     id |-> NoIdString, comment_id |-> NoIdString, recipe |-> NoRecipe,
     token |-> NoToken, access_token |-> NoToken, token_type |-> "-",
     doc |-> NoDoc, user |-> NoUsername, calls |-> <<>>]
\* the request after these calls on the collections
Called(req, names) == [req EXCEPT !.calls = @ \o names]

\* the requests handled at the same time, and a worker with no request
Procs == 1..MaxCalls
NoCall == [pc |-> "idle", req |-> Request("none")]

Init ==
    /\ users = {}
    /\ recipes = {}
    /\ oid_count = 0
    /\ now = 0
    /\ tokens = {}
    /\ resp = Request("none")
    /\ inflight = [p \in Procs |-> NoCall]

\* time passes
Tick ==
    /\ \E t \in Times : t > now /\ now' = t
    /\ UNCHANGED <<users, recipes, oid_count, tokens, resp, inflight>>

(***************************************************************************)
(* users_collection                                                        *)
(***************************************************************************)
\* mutant: the users collection has no unique index
DuplicateKey_no_index(username) == FALSE
\* the unique index on username: insert_one raises DuplicateKeyError
DuplicateKey(username) == \E u \in users : u.username = username

\* find_one({'username': username})
find_one_user(username) ==
    IF \E u \in users : u.username = username
    THEN CHOOSE u \in users : u.username = username
    ELSE NoUserDoc

(***************************************************************************)
(* POST /users                                                             *)
(***************************************************************************)
add_user(username, password, salt) ==
    LET hashed == password_context_hash(password, salt)
        req == [Request("add_user") EXCEPT !.username = username,
                                           !.password = password]
    IN  IF DuplicateKey(username)
        THEN /\ resp' = Called([req EXCEPT !.status = HTTP_400_BAD_REQUEST,
                                           !.detail = "Username already in use."],
                               <<"users.insert_one">>)
             /\ UNCHANGED <<users, recipes, oid_count, now, tokens, inflight>>
        ELSE /\ oid_count < MaxOid
             /\ oid_count' = oid_count + 1
             /\ users' = users \cup {[id |-> oid_count + 1, username |-> username,
                                      password |-> hashed]}
             /\ resp' = Called([req EXCEPT !.user = username],
                               <<"users.insert_one", "users.find_one">>)
             /\ UNCHANGED <<recipes, now, tokens, inflight>>

(***************************************************************************)
(* POST /users/login.  The handler rebinds `user` to the stored document   *)
(* (a dict, or None); for a stored document the evaluation of              *)
(* user.password raises AttributeError, an unhandled internal error.       *)
(***************************************************************************)
login(username, password) ==
    LET user == find_one_user(username)
        req == [Request("login") EXCEPT !.username = username,
                                        !.password = password,
                                        !.calls = <<"users.find_one">>]
    IN  /\ IF user = NoUserDoc
           THEN resp' = [req EXCEPT !.status = HTTP_401_UNAUTHORIZED,
                                    !.detail = "Invalid credentials"]
           ELSE resp' = [req EXCEPT !.status = HTTP_500_INTERNAL_SERVER_ERROR,
                                    !.detail = "Internal Server Error"]
        /\ UNCHANGED <<users, recipes, oid_count, now, tokens, inflight>>

\* the tokens clients hold once `issued` is handed out: each user's client keeps
\* at most MaxTokens tokens and forgets its oldest one when there is no room
Keep(held, issued) ==
    LET mine == {e \in held : e.tok.username = issued.tok.username}
    IN  IF Cardinality(mine \cup {issued}) <= MaxTokens
        THEN held \cup {issued}
        ELSE LET oldest == CHOOSE e \in mine : \A f \in mine : e.at <= f.at
             IN  (held \ {oldest}) \cup {issued}

(***************************************************************************)
(* authenticate_user (dependencies.py)                                     *)
(***************************************************************************)
authenticate_user(username, password) ==
    LET user == find_one_user(username)
        req == [Request("authenticate_user") EXCEPT !.username = username,
                                                    !.password = password,
                                                    !.calls = <<"users.find_one">>]
    IN  IF user # NoUserDoc /\ password_context_verify(password, user.password)
        THEN LET token == create_jwt_token(user.username, now)
             IN  /\ tokens' = Keep(tokens, [tok |-> token, at |-> now])
                 /\ resp' = [req EXCEPT !.access_token = token,
                                        !.token_type = "bearer"]
                 /\ UNCHANGED <<users, recipes, oid_count, now, inflight>>
        ELSE /\ resp' = [req EXCEPT !.status = HTTP_401_UNAUTHORIZED,
                                    !.detail = "Invalid credentials"]
             /\ UNCHANGED <<users, recipes, oid_count, now, tokens, inflight>>

(***************************************************************************)
(* Identity resolver: get_current_user (dependencies.py).                  *)
(***************************************************************************)
\* mutant: the username of the token is not looked up
credentials_ok_no_lookup(token) ==
    /\ jwt_decode_ok(token, now)
    /\ token.username # NoUsername
\* the token decodes, carries a username, and a user record has that username
credentials_ok(token) ==
    /\ jwt_decode_ok(token, now)
    /\ token.username # NoUsername
    /\ find_one_user(token.username) # NoUserDoc

get_current_user(token) ==
    LET req == [Request("get_current_user") EXCEPT
                    !.token = token,
                    !.calls = IF jwt_decode_ok(token, now) /\ token.username # NoUsername
                              THEN <<"users.find_one">>
                              ELSE <<>>]
    IN  /\ IF credentials_ok(token)
           THEN resp' = [req EXCEPT !.actor = token.username,
                                    !.user = find_one_user(token.username).username]
           ELSE resp' = [req EXCEPT !.status = HTTP_401_UNAUTHORIZED,
                                    !.detail = "Could not validate credentials"]
        /\ UNCHANGED <<users, recipes, oid_count, now, tokens, inflight>>

(***************************************************************************)
(* The tokens a client can present: the tokens issued, and an issued token *)
(* with its signature segment changed.                                     *)
(***************************************************************************)
Tampered(token) == [token EXCEPT !.mac.key = "tampered"]
PresentedTokens ==
    {t.tok : t \in tokens} \cup {Tampered(t.tok) : t \in tokens}

(***************************************************************************)
(* The identifiers a client can name: those of the stored documents, a     *)
(* well-formed identifier of no document, and a malformed one.             *)
(***************************************************************************)
RecipeIds == {OidStr(d.id) : d \in recipes} \cup {UnknownId, MalformedId}
UserIds == {OidStr(u.id) : u \in users} \cup {UnknownId, MalformedId}
CommentIds ==
    UNION {{d.comments[i].id : i \in 1..Len(d.comments)} : d \in recipes}
        \cup {UnknownId}

(***************************************************************************)
(* decode_token: the identity resolver of the recipe and user endpoints.   *)
(* They import it from app.api.dependencies, which does not define it; it  *)
(* is modelled as the resolver the specification describes (verify the     *)
(* token, take the username claim, look the username up).                  *)
(***************************************************************************)
decode_token_ok(token) ==
    /\ jwt_decode_ok(token, now)
    /\ token.username # NoUsername
    /\ find_one_user(token.username) # NoUserDoc
decode_token_error(token) ==
    IF jwt_decode_ok(token, now) /\ token.username # NoUsername
    THEN "UnknownIdentity"
    ELSE "InvalidToken"
\* the calls on the collections decode_token makes: the lookup of the username,
\* once the token is verified
decode_token_calls(token) ==
    IF jwt_decode_ok(token, now) /\ token.username # NoUsername
    THEN <<"users.find_one">>
    ELSE <<>>
\* the response of a handler whose decode_token call raised, before it read
\* any other argument of the request
Rejected(op, token) ==
    [Request(op) EXCEPT !.token = token, !.status = HTTP_401_UNAUTHORIZED,
                        !.detail = decode_token_error(token),
                        !.calls = decode_token_calls(token)]

(***************************************************************************)
(* convert_str_to_objectid (utils.py): ObjectId(id), or 404 'Invalid Id'.  *)
(***************************************************************************)
\* mutant: every string is taken for an ObjectId
is_valid_objectid_any(id) == TRUE
is_valid_objectid(id) == id[1] = "oid"
convert_str_to_objectid(id) == id[2]
InvalidId(req) == [req EXCEPT !.status = HTTP_404_NOT_FOUND, !.detail = "Invalid Id"]

(***************************************************************************)
(* GET /recipes/{recipe_id}: no token; the document found is answered      *)
(* through RecipeDetails, whose comments default to [].                    *)
(***************************************************************************)
get_recipe(recipe_id) ==
    LET req == [Request("get_recipe") EXCEPT !.id = recipe_id]
        matched == {d \in recipes : d.id = convert_str_to_objectid(recipe_id)}
    IN  /\ IF ~is_valid_objectid(recipe_id)
           THEN resp' = InvalidId(req)
           ELSE IF matched = {}
           THEN resp' = Called([req EXCEPT !.status = HTTP_404_NOT_FOUND,
                                           !.detail = "Recipe not found"],
                               <<"recipes.find_one">>)
           ELSE resp' = Called([req EXCEPT !.doc = [CHOOSE d \in matched : TRUE
                                                       EXCEPT !.has_comments = TRUE]],
                               <<"recipes.find_one">>)
        /\ UNCHANGED <<users, recipes, oid_count, now, tokens, inflight>>

(***************************************************************************)
(* GET /recipes/comments/{recipe_id}: no token.  next(cursor, None) is     *)
(* None when no recipe has the id, and None.get raises AttributeError, an  *)
(* unhandled internal error.                                               *)
(***************************************************************************)
get_all_recipe_comments(recipe_id) ==
    LET req == [Request("get_all_recipe_comments") EXCEPT !.id = recipe_id]
        matched == {d \in recipes : d.id = convert_str_to_objectid(recipe_id)}
    IN  /\ IF ~is_valid_objectid(recipe_id)
           THEN resp' = InvalidId(req)
           ELSE IF matched = {}
           THEN resp' = Called([req EXCEPT !.status = HTTP_500_INTERNAL_SERVER_ERROR,
                                           !.detail = "Internal Server Error"],
                               <<"recipes.find">>)
           ELSE resp' = Called([req EXCEPT
                                   !.doc = [NoDoc EXCEPT
                                               !.has_comments = TRUE,
                                               !.comments =
                                                   (CHOOSE d \in matched : TRUE).comments]],
                               <<"recipes.find">>)
        /\ UNCHANGED <<users, recipes, oid_count, now, tokens, inflight>>

(***************************************************************************)
(* POST /recipes                                                           *)
(***************************************************************************)
\* mutant: the author of the payload is kept
stamp_author_from_payload(recipe, username) == recipe
\* recipe.author = user['username']
stamp_author(recipe, username) == [recipe EXCEPT !.author = username]

add_recipe(recipe, token) ==
    LET req == [Request("add_recipe") EXCEPT !.recipe = recipe, !.token = token,
                                             !.calls = decode_token_calls(token)]
    IN  IF ~decode_token_ok(token)
        THEN /\ resp' = Rejected("add_recipe", token)
             /\ UNCHANGED <<users, recipes, oid_count, now, tokens, inflight>>
        ELSE LET inserted == RecipeDoc(oid_count + 1, stamp_author(recipe, token.username))
             IN  /\ oid_count < MaxOid
                 /\ oid_count' = oid_count + 1
                 /\ recipes' = recipes \cup {inserted}
                 /\ resp' = Called([req EXCEPT !.actor = token.username,
                                               !.doc = WithoutId(inserted)],
                                   <<"recipes.insert_one", "recipes.find_one">>)
                 /\ UNCHANGED <<users, now, tokens, inflight>>

(***************************************************************************)
(* PUT /recipes/{recipe_id}                                                *)
(***************************************************************************)
\* mutant: the filter does not name the author
edit_recipe_filter_any_author(doc, recipe_id, author) == doc.id = recipe_id
\* {'_id': recipe_id, 'author': author}
edit_recipe_filter(doc, recipe_id, author) ==
    doc.id = recipe_id /\ doc.author = author

edit_recipe(recipe_id, recipe, token) ==
    LET req == [Request("edit_recipe") EXCEPT !.id = recipe_id, !.recipe = recipe,
                                              !.token = token,
                                              !.calls = decode_token_calls(token)]
        author == token.username
        matched == {d \in recipes :
                       edit_recipe_filter(d, convert_str_to_objectid(recipe_id), author)}
    IN  IF ~decode_token_ok(token)
        THEN /\ resp' = Rejected("edit_recipe", token)
             /\ UNCHANGED <<users, recipes, oid_count, now, tokens, inflight>>
        ELSE IF ~is_valid_objectid(recipe_id)
        THEN /\ resp' = InvalidId([req EXCEPT !.actor = author])
             /\ UNCHANGED <<users, recipes, oid_count, now, tokens, inflight>>
        ELSE IF matched = {}
        THEN /\ resp' = Called([req EXCEPT !.actor = author,
                                           !.status = HTTP_404_NOT_FOUND,
                                           !.detail = "Recipe not found"],
                               <<"recipes.update_one">>)
             /\ UNCHANGED <<users, recipes, oid_count, now, tokens, inflight>>
        ELSE LET old == CHOOSE d \in matched : TRUE
                 new == SetRecipe(old, recipe)
                 \* UpdateResult.modified_count: documents the update changed
                 modified_count == IF new = old THEN 0 ELSE 1
             IN  /\ recipes' = (recipes \ {old}) \cup {new}
                 /\ IF modified_count = 0
                    THEN resp' = Called([req EXCEPT !.actor = author,
                                                    !.status = HTTP_404_NOT_FOUND,
                                                    !.detail = "Recipe not found"],
                                        <<"recipes.update_one">>)
                    ELSE resp' = Called([req EXCEPT !.actor = author,
                                                    !.doc = WithoutId(new)],
                                        <<"recipes.update_one", "recipes.find_one">>)
                 /\ UNCHANGED <<users, oid_count, now, tokens, inflight>>

(***************************************************************************)
(* DELETE /recipes/{recipe_id}                                             *)
(***************************************************************************)
\* {'_id': recipe_id, 'author': author}
delete_recipe_filter(doc, recipe_id, author) ==
    doc.id = recipe_id /\ doc.author = author

delete_recipe(recipe_id, token) ==
    LET req == [Request("delete_recipe") EXCEPT !.id = recipe_id, !.token = token,
                                                !.calls = decode_token_calls(token)]
        author == token.username
        matched == {d \in recipes :
                       delete_recipe_filter(d, convert_str_to_objectid(recipe_id), author)}
    IN  IF ~decode_token_ok(token)
        THEN /\ resp' = Rejected("delete_recipe", token)
             /\ UNCHANGED <<users, recipes, oid_count, now, tokens, inflight>>
        ELSE IF ~is_valid_objectid(recipe_id)
        THEN /\ resp' = InvalidId([req EXCEPT !.actor = author])
             /\ UNCHANGED <<users, recipes, oid_count, now, tokens, inflight>>
        ELSE IF matched = {}
        THEN /\ resp' = Called([req EXCEPT !.actor = author,
                                           !.status = HTTP_404_NOT_FOUND,
                                           !.detail = "Recipe not found"],
                               <<"recipes.delete_one">>)
             /\ UNCHANGED <<users, recipes, oid_count, now, tokens, inflight>>
        ELSE /\ recipes' = recipes \ {CHOOSE d \in matched : TRUE}
             /\ resp' = Called([req EXCEPT !.actor = author,
                                           !.detail = "Recipe deleted successfully"],
                               <<"recipes.delete_one">>)
             /\ UNCHANGED <<users, oid_count, now, tokens, inflight>>

(***************************************************************************)
(* POST /recipes/comments/{recipe_id}                                      *)
(***************************************************************************)
\* mutant: the new comment is put in front of the comments of the document
push_comment_front(doc, comment) ==
    [doc EXCEPT !.has_comments = TRUE, !.comments = <<comment>> \o @]
\* {'$push': {'comments': comment_data}}
push_comment(doc, comment) ==
    [doc EXCEPT !.has_comments = TRUE, !.comments = Append(@, comment)]

add_recipe_comment(comment, recipe_id, token) ==
    LET req == [Request("add_recipe_comment") EXCEPT
                    !.id = recipe_id, !.token = token,
                    !.calls = decode_token_calls(token)]
        author == token.username
        new_comment == Comment(OidStr(oid_count + 1), comment, author)
        matched == {d \in recipes : d.id = convert_str_to_objectid(recipe_id)}
    IN  IF ~decode_token_ok(token)
        THEN /\ resp' = Rejected("add_recipe_comment", token)
             /\ UNCHANGED <<users, recipes, oid_count, now, tokens, inflight>>
        ELSE IF ~is_valid_objectid(recipe_id)
        THEN /\ resp' = InvalidId([req EXCEPT !.actor = author])
             /\ UNCHANGED <<users, recipes, oid_count, now, tokens, inflight>>
        ELSE IF matched = {}
        THEN /\ resp' = Called([req EXCEPT !.actor = author,
                                           !.status = HTTP_404_NOT_FOUND,
                                           !.detail = "Recipe not found"],
                               <<"recipes.update_one">>)
             /\ UNCHANGED <<users, recipes, oid_count, now, tokens, inflight>>
        ELSE LET old == CHOOSE d \in matched : TRUE
                 new == push_comment(old, new_comment)
             IN  /\ oid_count < MaxOid
                 /\ oid_count' = oid_count + 1
                 /\ recipes' = (recipes \ {old}) \cup {new}
                 /\ resp' = Called([req EXCEPT !.actor = author, !.doc = WithoutId(new)],
                                   <<"recipes.update_one", "recipes.find_one">>)
                 /\ UNCHANGED <<users, now, tokens, inflight>>

(***************************************************************************)
(* DELETE /recipes/comments/{recipe_id}/{comment_id}                       *)
(***************************************************************************)
\* mutant: the filter names the author of the comment, not of the recipe
delete_recipe_comment_filter_comment_author(doc, recipe_id, author, comment_id) ==
    /\ doc.id = recipe_id
    /\ doc.has_comments
    /\ \E i \in 1..Len(doc.comments) :
          doc.comments[i].id = comment_id /\ doc.comments[i].author = author
\* {"_id": recipe_id, 'author': author, "comments": {"$elemMatch": {"id": comment_id}}}
delete_recipe_comment_filter(doc, recipe_id, author, comment_id) ==
    /\ doc.id = recipe_id
    /\ doc.author = author
    /\ doc.has_comments
    /\ \E i \in 1..Len(doc.comments) : doc.comments[i].id = comment_id

\* delete_one(filter) on the recipes collection: the matched document is deleted
delete_recipe_comment(recipe_id, comment_id, token) ==
    LET req == [Request("delete_recipe_comment") EXCEPT !.id = recipe_id,
                                                        !.comment_id = comment_id,
                                                        !.token = token,
                                                        !.calls = decode_token_calls(token)]
        author == token.username
        matched == {d \in recipes :
                       delete_recipe_comment_filter(
                           d, convert_str_to_objectid(recipe_id), author, comment_id)}
    IN  IF ~decode_token_ok(token)
        THEN /\ resp' = Rejected("delete_recipe_comment", token)
             /\ UNCHANGED <<users, recipes, oid_count, now, tokens, inflight>>
        ELSE IF ~is_valid_objectid(recipe_id)
        THEN /\ resp' = InvalidId([req EXCEPT !.actor = author])
             /\ UNCHANGED <<users, recipes, oid_count, now, tokens, inflight>>
        ELSE IF matched = {}
        THEN /\ resp' = Called([req EXCEPT !.actor = author,
                                           !.status = HTTP_404_NOT_FOUND,
                                           !.detail = "Comment not found"],
                               <<"recipes.delete_one">>)
             /\ UNCHANGED <<users, recipes, oid_count, now, tokens, inflight>>
        ELSE /\ recipes' = recipes \ {CHOOSE d \in matched : TRUE}
             /\ resp' = Called([req EXCEPT !.actor = author,
                                           !.detail = "Comment deleted successfully"],
                               <<"recipes.delete_one">>)
             /\ UNCHANGED <<users, oid_count, now, tokens, inflight>>

(***************************************************************************)
(* DELETE /users/delete/{user_id}                                          *)
(***************************************************************************)
\* mutant: the filter does not name the username of the resolved identity
delete_user_filter_any_username(user, user_id, username) == user.id = user_id
\* {"_id": user_id, 'username': username}
delete_user_filter(user, user_id, username) ==
    user.id = user_id /\ user.username = username

\* delete_many({"author": username})
delete_many_by_author(docs, username) == {d \in docs : d.author # username}

\* mutant: the update empties the comments of the documents it matches
pull_comments_all(docs, username) ==
    {IF d.has_comments /\ \E i \in 1..Len(d.comments) : d.comments[i].author = username
     THEN [d EXCEPT !.comments = <<>>]
     ELSE d : d \in docs}
\* update_many({"comments.author": username}, {"$pull": {"comments": {"author": username}}})
pull_comments_by_author(docs, username) ==
    {IF d.has_comments /\ \E i \in 1..Len(d.comments) : d.comments[i].author = username
     THEN [d EXCEPT !.comments = PullComments(@, username)]
     ELSE d : d \in docs}

delete_user(user_id, token) ==
    LET req == [Request("delete_user") EXCEPT !.id = user_id, !.token = token,
                                              !.calls = decode_token_calls(token)]
        username == token.username
        matched == {u \in users :
                       delete_user_filter(u, convert_str_to_objectid(user_id), username)}
    IN  IF ~decode_token_ok(token)
        THEN /\ resp' = Rejected("delete_user", token)
             /\ UNCHANGED <<users, recipes, oid_count, now, tokens, inflight>>
        ELSE IF ~is_valid_objectid(user_id)
        THEN /\ resp' = InvalidId([req EXCEPT !.actor = username])
             /\ UNCHANGED <<users, recipes, oid_count, now, tokens, inflight>>
        ELSE IF matched = {}
        THEN /\ resp' = Called([req EXCEPT !.actor = username,
                                           !.status = HTTP_404_NOT_FOUND,
                                           !.detail = "User not found"],
                               <<"users.delete_one">>)
             /\ UNCHANGED <<users, recipes, oid_count, now, tokens, inflight>>
        ELSE /\ users' = users \ {CHOOSE u \in matched : TRUE}
             /\ recipes' = pull_comments_by_author(
                               delete_many_by_author(recipes, username), username)
             /\ resp' = Called([req EXCEPT !.actor = username,
                                           !.detail = "User deleted successfully"],
                               <<"users.delete_one", "recipes.delete_many",
                                 "recipes.update_many">>)
             /\ UNCHANGED <<oid_count, now, tokens, inflight>>

(***************************************************************************)
(* The service: every request is one step.                                 *)
(***************************************************************************)
Next ==
    \/ Tick
    \/ \E u \in Usernames, p \in Passwords, s \in Salts : add_user(u, p, s)
    \/ \E u \in Usernames, p \in Passwords : login(u, p)
    \/ \E u \in Usernames, p \in Passwords : authenticate_user(u, p)
    \/ \E t \in PresentedTokens : get_current_user(t)
    \/ \E id \in RecipeIds : get_recipe(id)
    \/ \E id \in RecipeIds : get_all_recipe_comments(id)
    \/ \E r \in RecipePayloads, t \in PresentedTokens : add_recipe(r, t)
    \/ \E id \in RecipeIds, r \in RecipePayloads, t \in PresentedTokens :
          edit_recipe(id, r, t)
    \/ \E id \in RecipeIds, t \in PresentedTokens : delete_recipe(id, t)
    \/ \E c \in CommentTexts, id \in RecipeIds, t \in PresentedTokens :
          add_recipe_comment(c, id, t)
    \/ \E id \in RecipeIds, cid \in CommentIds, t \in PresentedTokens :
          delete_recipe_comment(id, cid, t)
    \/ \E id \in UserIds, t \in PresentedTokens : delete_user(id, t)

Spec == Init /\ [][Next]_vars

(***************************************************************************)
(* The resource operations at one instant: registration, token issue and   *)
(* the ownership-scoped operations, the clock standing still.              *)
(***************************************************************************)
IssuedTokens == {t.tok : t \in tokens}

\* the payloads of one title: they differ in the author they name only
GatePayloads == {r \in RecipePayloads : r.title = "Soup"}

NextStore ==
    \/ \E r \in RecipePayloads, t \in IssuedTokens : add_recipe(r, t)
    \/ \E id \in RecipeIds, r \in RecipePayloads, t \in IssuedTokens :
          edit_recipe(id, r, t)
    \/ \E id \in RecipeIds, t \in IssuedTokens : delete_recipe(id, t)
    \/ \E c \in CommentTexts, id \in RecipeIds, t \in IssuedTokens :
          add_recipe_comment(c, id, t)
    \/ \E id \in RecipeIds, cid \in CommentIds, t \in IssuedTokens :
          delete_recipe_comment(id, cid, t)
    \/ \E id \in UserIds, t \in IssuedTokens : delete_user(id, t)

\* alice and bob are registered and each holds a token issued at instant 0
StoreUsers ==
    {[id |-> 1, username |-> "alice", password |-> password_context_hash("pw1", "salt1")],
     [id |-> 2, username |-> "bob", password |-> password_context_hash("pw2", "salt1")]}
InitStore ==
    /\ users = StoreUsers
    /\ recipes = {}
    /\ oid_count = 2
    /\ now = 0
    /\ tokens = {[tok |-> create_jwt_token(u.username, 0), at |-> 0] : u \in StoreUsers}
    /\ resp = Request("none")
    /\ inflight = [p \in Procs |-> NoCall]

SpecStore == InitStore /\ [][NextStore]_vars

(***************************************************************************)
(* The operations that take the identifier of a recipe or of a user, with  *)
(* add_recipe, at one instant.                                             *)
(***************************************************************************)
NextIds ==
    \/ \E id \in RecipeIds : get_recipe(id)
    \/ \E id \in RecipeIds : get_all_recipe_comments(id)
    \/ \E r \in GatePayloads, t \in IssuedTokens : add_recipe(r, t)
    \/ \E id \in RecipeIds, r \in GatePayloads, t \in IssuedTokens :
          edit_recipe(id, r, t)
    \/ \E id \in RecipeIds, t \in IssuedTokens : delete_recipe(id, t)
    \/ \E c \in CommentTexts, id \in RecipeIds, t \in IssuedTokens :
          add_recipe_comment(c, id, t)
    \/ \E id \in RecipeIds, cid \in CommentIds, t \in IssuedTokens :
          delete_recipe_comment(id, cid, t)
    \/ \E id \in UserIds, t \in IssuedTokens : delete_user(id, t)

SpecIds == InitStore /\ [][NextIds]_vars

(***************************************************************************)
(* Accounts and tokens over time: registration, login, token issue,        *)
(* identity resolution and account deletion, with the clock running.       *)
(***************************************************************************)
NextAuth ==
    \/ Tick
    \/ \E u \in Usernames, p \in Passwords, s \in Salts : add_user(u, p, s)
    \/ \E u \in Usernames, p \in Passwords : login(u, p)
    \/ \E u \in Usernames, p \in Passwords : authenticate_user(u, p)
    \/ \E t \in PresentedTokens : get_current_user(t)
    \/ \E id \in UserIds, t \in PresentedTokens : delete_user(id, t)

SpecAuth == Init /\ [][NextAuth]_vars

(***************************************************************************)
(* Usernames registered again: the accounts of alice and bob and the       *)
(* tokens issued for them; accounts are deleted and registered, no further *)
(* token is issued.                                                        *)
(***************************************************************************)
NextReuse ==
    \/ Tick
    \/ \E u \in Usernames, p \in Passwords, s \in Salts : add_user(u, p, s)
    \/ \E t \in PresentedTokens : get_current_user(t)
    \/ \E id \in UserIds, t \in PresentedTokens : delete_user(id, t)

SpecReuse == InitStore /\ [][NextReuse]_vars

(***************************************************************************)
(* The identity gate over time: the accounts of alice and bob, their       *)
(* tokens and tampered copies of them, presented to the identity resolver  *)
(* and to the six mutating operations while the clock runs.  The payloads  *)
(* are those of GatePayloads.                                              *)
(***************************************************************************)
NextGate ==
    \/ Tick
    \/ \E t \in PresentedTokens : get_current_user(t)
    \/ \E r \in GatePayloads, t \in PresentedTokens : add_recipe(r, t)
    \/ \E id \in RecipeIds, r \in GatePayloads, t \in PresentedTokens :
          edit_recipe(id, r, t)
    \/ \E id \in RecipeIds, t \in PresentedTokens : delete_recipe(id, t)
    \/ \E c \in CommentTexts, id \in RecipeIds, t \in PresentedTokens :
          add_recipe_comment(c, id, t)
    \/ \E id \in RecipeIds, cid \in CommentIds, t \in PresentedTokens :
          delete_recipe_comment(id, cid, t)
    \/ \E id \in UserIds, t \in PresentedTokens : delete_user(id, t)

SpecGate == InitStore /\ [][NextGate]_vars

(***************************************************************************)
(* Requests handled at the same time.  The handlers of delete_user,        *)
(* add_recipe and add_recipe_comment, one call on a collection per step,   *)
(* the calls of different requests interleaved.  A request in flight is    *)
(* the record of its arguments and of the calls it has made; the response  *)
(* it returns is that record.                                              *)
(***************************************************************************)
Working(p, pc) == inflight[p].pc = pc
Goto(p, pc, req) == inflight' = [inflight EXCEPT ![p] = [pc |-> pc, req |-> req]]
Return(p) == inflight' = [inflight EXCEPT ![p] = NoCall]

\* user.py 102-106: decode_token, then convert_str_to_objectid; a request refused
\* here is answered at once, makes no further call and changes nothing
delete_user_begin(p, user_id, token) ==
    LET req == [Request("delete_user") EXCEPT !.id = user_id, !.token = token,
                                              !.calls = decode_token_calls(token)]
    IN  /\ Working(p, "idle")
        /\ decode_token_ok(token)
        /\ is_valid_objectid(user_id)
        /\ Goto(p, "delete_one", [req EXCEPT !.actor = token.username])
        /\ UNCHANGED <<users, recipes, oid_count, now, tokens, resp>>

\* mutant: the cleanup is run whatever delete_one reported
user_was_deleted_always(deleted_count) == TRUE
\* if result.deleted_count > 0
user_was_deleted(deleted_count) == deleted_count > 0

\* mutant: the user record, the recipes and the comments go in one step
delete_user_delete_one_with_cascade(p) ==
    LET req == Called(inflight[p].req, <<"users.delete_one">>)
        username == req.actor
        matched == {u \in users :
                       delete_user_filter(u, convert_str_to_objectid(req.id), username)}
    IN  /\ Working(p, "delete_one")
        /\ matched # {}
        /\ users' = users \ {CHOOSE u \in matched : TRUE}
        /\ recipes' = pull_comments_by_author(
                          delete_many_by_author(recipes, username), username)
        /\ Goto(p, "delete_many", req)
        /\ UNCHANGED <<oid_count, now, tokens, resp>>
\* user.py 108-110, 121: users_collection.delete_one, and the 404 when it
\* deleted nothing
delete_user_delete_one(p) ==
    LET req == Called(inflight[p].req, <<"users.delete_one">>)
        username == req.actor
        matched == {u \in users :
                       delete_user_filter(u, convert_str_to_objectid(req.id), username)}
        deleted_count == Cardinality(matched)
    IN  /\ Working(p, "delete_one")
        /\ IF user_was_deleted(deleted_count)
           THEN /\ users' = users \ (IF matched = {} THEN {}
                                     ELSE {CHOOSE u \in matched : TRUE})
                /\ Goto(p, "delete_many", req)
           ELSE /\ users' = users
                /\ Return(p)
        /\ UNCHANGED <<recipes, oid_count, now, tokens, resp>>

\* user.py 112-114: recipes_collection.delete_many
delete_user_delete_many(p) ==
    LET req == Called(inflight[p].req, <<"recipes.delete_many">>)
    IN  /\ Working(p, "delete_many")
        /\ recipes' = delete_many_by_author(recipes, req.actor)
        /\ Goto(p, "update_many", req)
        /\ UNCHANGED <<users, oid_count, now, tokens, resp>>

\* user.py 116-119: recipes_collection.update_many
delete_user_update_many(p) ==
    LET req == Called(inflight[p].req, <<"recipes.update_many">>)
    IN  /\ Working(p, "update_many")
        /\ recipes' = pull_comments_by_author(recipes, req.actor)
        /\ Goto(p, "return", [req EXCEPT !.detail = "User deleted successfully"])
        /\ UNCHANGED <<users, oid_count, now, tokens, resp>>

\* user.py 123: the response
delete_user_return(p) ==
    /\ Working(p, "return")
    /\ Return(p)
    /\ UNCHANGED <<users, recipes, oid_count, now, tokens, resp>>

\* recipe.py 127-128: decode_token, recipe.author = user['username']
add_recipe_begin(p, recipe, token) ==
    LET req == [Request("add_recipe") EXCEPT !.recipe = recipe, !.token = token,
                                             !.calls = decode_token_calls(token)]
    IN  /\ Working(p, "idle")
        /\ decode_token_ok(token)
        /\ Goto(p, "insert_one", [req EXCEPT !.actor = token.username])
        /\ UNCHANGED <<users, recipes, oid_count, now, tokens, resp>>

\* recipe.py 130: recipes_collection.insert_one
add_recipe_insert_one(p) ==
    LET req == Called(inflight[p].req, <<"recipes.insert_one">>)
        inserted == RecipeDoc(oid_count + 1, stamp_author(req.recipe, req.actor))
    IN  /\ Working(p, "insert_one")
        /\ oid_count < MaxOid
        /\ oid_count' = oid_count + 1
        /\ recipes' = recipes \cup {inserted}
        /\ Goto(p, "find_one", [req EXCEPT !.id = OidStr(inserted.id)])
        /\ UNCHANGED <<users, now, tokens, resp>>

\* recipe.py 131: find_one({'_id': result.inserted_id}, {'_id': 0}) and the response
add_recipe_find_one(p) ==
    /\ Working(p, "find_one")
    /\ inflight[p].req.op = "add_recipe"
    /\ Return(p)
    /\ UNCHANGED <<users, recipes, oid_count, now, tokens, resp>>

\* recipe.py 192-200: decode_token, convert_str_to_objectid, the new Comment
add_recipe_comment_begin(p, comment, recipe_id, token) ==
    LET req == [Request("add_recipe_comment") EXCEPT
                    !.id = recipe_id, !.token = token,
                    !.calls = decode_token_calls(token)]
    IN  /\ Working(p, "idle")
        /\ decode_token_ok(token)
        /\ is_valid_objectid(recipe_id)
        /\ Goto(p, "update_one", [req EXCEPT !.actor = token.username])
        /\ UNCHANGED <<users, recipes, oid_count, now, tokens, resp>>

\* recipe.py 203-209: recipes_collection.update_one with $push, and the 404
\* when it modified nothing
add_recipe_comment_update_one(p) ==
    LET req == Called(inflight[p].req, <<"recipes.update_one">>)
        new_comment == Comment(OidStr(oid_count + 1), "nice", req.actor)
        matched == {d \in recipes : d.id = convert_str_to_objectid(req.id)}
    IN  /\ Working(p, "update_one")
        /\ IF matched = {}
           THEN /\ Return(p)
                /\ UNCHANGED <<recipes, oid_count>>
           ELSE LET old == CHOOSE d \in matched : TRUE
                IN  /\ oid_count < MaxOid
                    /\ oid_count' = oid_count + 1
                    /\ recipes' = (recipes \ {old}) \cup {push_comment(old, new_comment)}
                    /\ Goto(p, "find_one", req)
        /\ UNCHANGED <<users, now, tokens, resp>>

\* recipe.py 211-212: find_one({'_id': recipe_id}, {'_id': 0}) and the response
add_recipe_comment_find_one(p) ==
    /\ Working(p, "find_one")
    /\ inflight[p].req.op = "add_recipe_comment"
    /\ Return(p)
    /\ UNCHANGED <<users, recipes, oid_count, now, tokens, resp>>

\* the server process dies: the requests in flight make no further call, and
\* no request is handled any more
Crash ==
    /\ \E p \in Procs : ~Working(p, "idle") /\ ~Working(p, "crashed")
    /\ inflight' = [p \in Procs |-> [inflight[p] EXCEPT !.pc = "crashed"]]
    /\ UNCHANGED <<users, recipes, oid_count, now, tokens, resp>>

NextConc ==
    \/ \E p \in Procs, id \in UserIds, t \in IssuedTokens : delete_user_begin(p, id, t)
    \/ \E p \in Procs : delete_user_delete_one(p)
    \/ \E p \in Procs : delete_user_delete_many(p)
    \/ \E p \in Procs : delete_user_update_many(p)
    \/ \E p \in Procs : delete_user_return(p)
    \/ \E p \in Procs, r \in GatePayloads, t \in IssuedTokens : add_recipe_begin(p, r, t)
    \/ \E p \in Procs : add_recipe_insert_one(p)
    \/ \E p \in Procs : add_recipe_find_one(p)
    \/ \E p \in Procs, c \in CommentTexts, id \in RecipeIds, t \in IssuedTokens :
          add_recipe_comment_begin(p, c, id, t)
    \/ \E p \in Procs : add_recipe_comment_update_one(p)
    \/ \E p \in Procs : add_recipe_comment_find_one(p)
    \/ Crash

SpecConc == InitStore /\ [][NextConc]_vars

(***************************************************************************)
(*                              Properties                                 *)
(*                                                                         *)
(* resp holds the last request and its response, so a step that answers a  *)
(* request of handler op is a step with resp'.op = op during which the     *)
(* clock stands still; the unprimed variables are the store the request    *)
(* found, the primed ones the store it left.                               *)
(***************************************************************************)
Answers(ops) == now' = now /\ resp'.op \in ops
Resolved(r) == r.actor # NoUsername
ExpiryTicks == WEEK_SECONDS * TicksPerSecond

\* a user record with this username whose hash verifies this password
Registered(username, password) ==
    \E u \in users : u.username = username /\ password_context_verify(password, u.password)

(***************************************************************************)
(* C1: whenever (username, password) is registered, a login or an          *)
(* authenticate_user with these credentials answers 200 with a token of    *)
(* token_type 'bearer' that get_current_user resolves to that username.    *)
(* Stated as the claim states it; login does not satisfy it.               *)
(***************************************************************************)
C1_RegisterThenLogin ==
    [][(Answers({"login", "authenticate_user"})
          /\ Registered(resp'.username, resp'.password))
       => (/\ resp'.status = HTTP_200_OK
           /\ resp'.token_type = "bearer"
           /\ credentials_ok(resp'.access_token)
           /\ find_one_user(resp'.access_token.username).username = resp'.username)]_vars

\* the part of C1 that authenticate_user satisfies
C1_AuthenticateUser ==
    [][(Answers({"authenticate_user"}) /\ Registered(resp'.username, resp'.password))
       => (/\ resp'.status = HTTP_200_OK
           /\ resp'.token_type = "bearer"
           /\ credentials_ok(resp'.access_token)
           /\ find_one_user(resp'.access_token.username).username = resp'.username)]_vars

(***************************************************************************)
(* C7: add_user with a username that has a user record answers 400         *)
(* 'Username already in use.' and leaves the users collection as it was.   *)
(***************************************************************************)
C7_DuplicateUsername ==
    [][(Answers({"add_user"}) /\ \E u \in users : u.username = resp'.username)
       => (/\ resp'.status = HTTP_400_BAD_REQUEST
           /\ resp'.detail = "Username already in use."
           /\ users' = users)]_vars

\* a second registration, with another password, was refused
C7_Witness ==
    /\ resp.op = "add_user"
    /\ resp.status = HTTP_400_BAD_REQUEST
    /\ \E u \in users : /\ u.username = resp.username
                        /\ ~password_context_verify(resp.password, u.password)

(***************************************************************************)
(* C8: a login or authenticate_user whose credentials are not registered   *)
(* (wrong password for a registered username, or a username with no        *)
(* record) answers 401 'Invalid credentials' in both cases.  Stated as the *)
(* claim states it; login does not satisfy it.                             *)
(***************************************************************************)
C8_SameFailure ==
    [][(Answers({"login", "authenticate_user"})
          /\ ~Registered(resp'.username, resp'.password))
       => (/\ resp'.status = HTTP_401_UNAUTHORIZED
           /\ resp'.detail = "Invalid credentials")]_vars

\* the part of C8 that authenticate_user satisfies
C8_AuthenticateUser ==
    [][(Answers({"authenticate_user"}) /\ ~Registered(resp'.username, resp'.password))
       => (/\ resp'.status = HTTP_401_UNAUTHORIZED
           /\ resp'.detail = "Invalid credentials")]_vars

(***************************************************************************)
(* C9, as claimed: a token issued at instant `at` to a user who is         *)
(* registered is accepted by get_current_user at every instant before      *)
(* at + 7 days and rejected at every instant after at + 7 days.            *)
(***************************************************************************)
C9_SevenDaysExact ==
    [][Answers({"get_current_user"})
       => \A e \in tokens :
             (e.tok = resp'.token /\ find_one_user(e.tok.username) # NoUserDoc)
             => /\ now < e.at + ExpiryTicks
                   => (resp'.status = HTTP_200_OK /\ resp'.user = e.tok.username)
                /\ now > e.at + ExpiryTicks
                   => resp'.status = HTTP_401_UNAUTHORIZED]_vars

(***************************************************************************)
(* C9, amended: such a token is accepted at every instant before           *)
(* at + 7 days and rejected at every instant from at + 7 days + 1 second   *)
(* on (the expiry is written and compared in whole seconds); the expiry of *)
(* a token is fixed when it is issued, and no step changes a token that    *)
(* was issued.                                                             *)
(***************************************************************************)
C9_SevenDays ==
    [][/\ Answers({"get_current_user"})
          => \A e \in tokens :
                (e.tok = resp'.token /\ find_one_user(e.tok.username) # NoUserDoc)
                => /\ now < e.at + ExpiryTicks
                      => (resp'.status = HTTP_200_OK /\ resp'.user = e.tok.username)
                   /\ now >= e.at + ExpiryTicks + TicksPerSecond
                      => resp'.status = HTTP_401_UNAUTHORIZED
       /\ \A e \in tokens' :
             /\ e \in tokens \/ e.at = now
             /\ e.tok.exp = ToSeconds(e.at) + WEEK_SECONDS]_vars

\* a token of a registered user was rejected one second after its seven days
C9_Witness ==
    /\ resp.op = "get_current_user"
    /\ resp.status = HTTP_401_UNAUTHORIZED
    /\ \E e \in tokens : /\ e.tok = resp.token
                         /\ find_one_user(e.tok.username) # NoUserDoc
                         /\ now = e.at + ExpiryTicks + TicksPerSecond

(***************************************************************************)
(* The recipe a request names, in the store the request found.             *)
(***************************************************************************)
Named(r) == {d \in recipes : is_valid_objectid(r.id) /\ OidStr(d.id) = r.id}
HasComment(d, comment_id) ==
    d.has_comments /\ \E i \in 1..Len(d.comments) : d.comments[i].id = comment_id
\* the comments not by this author, and the comments without this id, in their order
Others(comments, author) == SelectSeq(comments, LAMBDA c : c.author # author)
Without(comments, comment_id) == SelectSeq(comments, LAMBDA c : c.id # comment_id)

(***************************************************************************)
(* C2: edit_recipe and delete_recipe by a resolved identity on a           *)
(* well-formed id that names no recipe of this identity (a recipe of       *)
(* another author, or no recipe at all) answer 404 'Recipe not found' and  *)
(* leave the recipes and users collections unchanged.                      *)
(***************************************************************************)
C2_NotOwnerNotFound ==
    [][(/\ Answers({"edit_recipe", "delete_recipe"})
        /\ Resolved(resp')
        /\ is_valid_objectid(resp'.id)
        /\ \A d \in Named(resp') : d.author # resp'.actor)
       => (/\ resp'.status = HTTP_404_NOT_FOUND
           /\ resp'.detail = "Recipe not found"
           /\ recipes' = recipes
           /\ users' = users)]_vars

\* an edit_recipe on a stored recipe of another author was answered 404
C2_Witness ==
    /\ resp.op = "edit_recipe"
    /\ Resolved(resp)
    /\ resp.status = HTTP_404_NOT_FOUND
    /\ \E d \in Named(resp) : d.author # resp.actor

(***************************************************************************)
(* C3, as claimed: edit_recipe and delete_recipe by the author of the      *)
(* recipe they name answer 200, whatever the payload, and delete_recipe    *)
(* removes the recipe.  edit_recipe does not satisfy it.                   *)
(***************************************************************************)
C3_OwnerSucceeds ==
    [][(/\ Answers({"edit_recipe", "delete_recipe"})
        /\ Resolved(resp')
        /\ \E d \in Named(resp') : d.author = resp'.actor)
       => (/\ resp'.status = HTTP_200_OK
           /\ resp'.op = "delete_recipe"
              => \A d \in recipes' : OidStr(d.id) # resp'.id)]_vars

\* the part of C3 that the code satisfies: delete_recipe, and an edit_recipe
\* whose payload differs from the stored recipe
C3_OwnerSucceedsWhenChanging ==
    [][(/\ Answers({"edit_recipe", "delete_recipe"})
        /\ Resolved(resp')
        /\ \E d \in Named(resp') :
              /\ d.author = resp'.actor
              /\ resp'.op = "edit_recipe" => RecipeOf(d) # resp'.recipe)
       => (/\ resp'.status = HTTP_200_OK
           /\ resp'.op = "delete_recipe"
              => \A d \in recipes' : OidStr(d.id) # resp'.id)]_vars

(***************************************************************************)
(* C4: delete_recipe_comment by a resolved identity on a recipe id and a   *)
(* comment id answers 200 when the identity is the author of the recipe    *)
(* and the comment is on the recipe, whoever wrote the comment; in every   *)
(* other case it answers 404 'Comment not found' and leaves the recipes    *)
(* and users collections unchanged.                                        *)
(***************************************************************************)
C4_RecipeAuthorOnly ==
    [][(/\ Answers({"delete_recipe_comment"})
        /\ Resolved(resp')
        /\ is_valid_objectid(resp'.id))
       => IF \E d \in Named(resp') :
                d.author = resp'.actor /\ HasComment(d, resp'.comment_id)
          THEN resp'.status = HTTP_200_OK
          ELSE /\ resp'.status = HTTP_404_NOT_FOUND
               /\ resp'.detail = "Comment not found"
               /\ recipes' = recipes
               /\ users' = users]_vars

\* the author of a comment, not the author of the recipe, was answered 404
C4_Witness ==
    /\ resp.op = "delete_recipe_comment"
    /\ Resolved(resp)
    /\ resp.status = HTTP_404_NOT_FOUND
    /\ \E d \in Named(resp) :
          /\ d.author # resp.actor
          /\ \E i \in 1..Len(d.comments) :
                /\ d.comments[i].id = resp.comment_id
                /\ d.comments[i].author = resp.actor

(***************************************************************************)
(* C5, as claimed: after a delete_recipe_comment answered 200 the recipe   *)
(* still exists, its comments are the previous ones without the comment    *)
(* named, in their order, its other fields and all other recipes are       *)
(* unchanged.  The handler deletes the recipe.                             *)
(***************************************************************************)
C5_CommentRemoved ==
    [][(Answers({"delete_recipe_comment"}) /\ resp'.status = HTTP_200_OK)
       => \E d \in Named(resp') :
             recipes' = (recipes \ {d}) \cup
                 {[d EXCEPT !.comments = Without(@, resp'.comment_id)]}]_vars

(***************************************************************************)
(* C6: after a delete_user answered 200 for the account of username A      *)
(* there is no user record of A, no recipe of author A and no comment of   *)
(* author A, and the recipes are exactly the previous recipes of other     *)
(* authors, each with its fields unchanged and its comments of other       *)
(* authors in their order.                                                 *)
(***************************************************************************)
C6_Cascade ==
    [][(Answers({"delete_user"}) /\ resp'.status = HTTP_200_OK)
       => LET A == resp'.actor
          IN  /\ \A u \in users' : u.username # A
              /\ users' \subseteq users
              /\ \A u \in users : u.username # A => u \in users'
              /\ \A d \in recipes' :
                    /\ d.author # A
                    /\ \A i \in 1..Len(d.comments) : d.comments[i].author # A
              /\ recipes' = {[d EXCEPT !.comments = Others(@, A)] :
                                d \in {e \in recipes : e.author # A}}]_vars

\* an account was deleted; a recipe of another author is still there, and its
\* comments, all of the deleted account, were pulled (the key exists, the
\* sequence is empty)
C6_Witness ==
    /\ resp.op = "delete_user"
    /\ resp.status = HTTP_200_OK
    /\ \A u \in users : u.username # resp.actor
    /\ \E d \in recipes :
          /\ d.author # resp.actor
          /\ d.has_comments
          /\ d.comments = <<>>

(***************************************************************************)
(* C10: the recipe stored (and returned) by add_recipe and the comment     *)
(* stored by add_recipe_comment have author = the username of the token's  *)
(* identity, whatever author the payload names.                            *)
(***************************************************************************)
C10_AuthorStamped ==
    [][/\ (Answers({"add_recipe"}) /\ resp'.status = HTTP_200_OK)
          => /\ credentials_ok(resp'.token)
             /\ resp'.doc.author = resp'.token.username
             /\ \E d \in recipes' \ recipes :
                   /\ recipes' = recipes \cup {d}
                   /\ d.author = resp'.token.username
                   /\ WithoutId(d) = resp'.doc
       /\ (Answers({"add_recipe_comment"}) /\ resp'.status = HTTP_200_OK)
          => /\ credentials_ok(resp'.token)
             /\ \E d \in Named(resp') : \E e \in recipes' :
                   /\ recipes' = (recipes \ {d}) \cup {e}
                   /\ e.id = d.id
                   /\ Len(e.comments) = Len(d.comments) + 1
                   /\ e.comments[Len(e.comments)].author = resp'.token.username]_vars

\* a recipe whose payload named another author was stored under the acting identity
C10_Witness ==
    /\ resp.op = "add_recipe"
    /\ resp.status = HTTP_200_OK
    /\ resp.recipe.author # resp.token.username
    /\ resp.doc.author = resp.token.username
    /\ \E d \in recipes : WithoutId(d) = resp.doc

(***************************************************************************)
(* C11: delete_user by a resolved identity A on a well-formed id that is   *)
(* not the id of A's own user record (the id of another user's record, or  *)
(* of no record) answers 404 'User not found' and leaves the users and     *)
(* recipes collections, and with them every comment, unchanged.            *)
(***************************************************************************)
C11_SelfOnly ==
    [][(/\ Answers({"delete_user"})
        /\ Resolved(resp')
        /\ is_valid_objectid(resp'.id)
        /\ \A u \in users : OidStr(u.id) = resp'.id => u.username # resp'.actor)
       => (/\ resp'.status = HTTP_404_NOT_FOUND
           /\ resp'.detail = "User not found"
           /\ users' = users
           /\ recipes' = recipes)]_vars

\* a delete_user naming the record of another user was answered 404; that
\* user and a recipe of the caller are still stored
C11_Witness ==
    /\ resp.op = "delete_user"
    /\ Resolved(resp)
    /\ resp.status = HTTP_404_NOT_FOUND
    /\ \E u \in users : OidStr(u.id) = resp.id /\ u.username # resp.actor
    /\ \E d \in recipes : d.author = resp.actor

(***************************************************************************)
(* The operations that write to the store, and the tokens the identity     *)
(* resolver cannot resolve, told from what was issued: a token that was    *)
(* never issued (its signature was changed), a token past its expiry, a    *)
(* token whose username has no user record.                                *)
(***************************************************************************)
Mutating ==
    {"add_recipe", "edit_recipe", "delete_recipe", "add_recipe_comment",
     "delete_recipe_comment", "delete_user"}
NeverIssued(token) == \A e \in tokens : e.tok # token
Expired(token) ==
    \E e \in tokens : e.tok = token /\ now >= e.at + ExpiryTicks + TicksPerSecond
UnknownUser(token) == \A u \in users : u.username # token.username
Unresolvable(token) == NeverIssued(token) \/ Expired(token) \/ UnknownUser(token)

(***************************************************************************)
(* C12: a mutating operation presented with a token that does not resolve  *)
(* (never issued, expired, or of a username with no user record) answers   *)
(* 401 with the resolver's error, whatever its other arguments are, and    *)
(* leaves the users and recipes collections unchanged.                     *)
(***************************************************************************)
C12_GateFirst ==
    [][(Answers(Mutating) /\ Unresolvable(resp'.token))
       => (/\ resp'.status = HTTP_401_UNAUTHORIZED
           /\ resp'.detail \in {"InvalidToken", "UnknownIdentity"}
           /\ ~Resolved(resp')
           /\ users' = users
           /\ recipes' = recipes)]_vars

\* a mutating operation was refused for an expired token of a registered
\* user while recipes were stored
C12_Witness ==
    /\ resp.op \in Mutating
    /\ resp.status = HTTP_401_UNAUTHORIZED
    /\ Expired(resp.token)
    /\ ~UnknownUser(resp.token)
    /\ recipes # {}

(***************************************************************************)
(* A token issued for a user record that has been deleted.  Where the      *)
(* tokens are those of InitStore, each was issued for the record of its    *)
(* username in StoreUsers.                                                 *)
(***************************************************************************)
OfDeletedAccount(token) ==
    /\ \E e \in tokens : e.tok = token
    /\ \A u \in StoreUsers : u.username = token.username => u \notin users

(***************************************************************************)
(* C13: a request (get_current_user or a mutating operation) presenting a  *)
(* token that was issued for a user record which has been deleted is       *)
(* answered 401 and leaves the users and recipes collections unchanged, as *)
(* long as no user record has the token's username.                        *)
(***************************************************************************)
C13_DeletedAccountRejected ==
    [][(/\ Answers(Mutating \cup {"get_current_user"})
        /\ OfDeletedAccount(resp'.token)
        /\ UnknownUser(resp'.token))
       => (/\ resp'.status = HTTP_401_UNAUTHORIZED
           /\ ~Resolved(resp')
           /\ users' = users
           /\ recipes' = recipes)]_vars

\* get_current_user refused the unexpired token of an account deleted by
\* delete_user; the other account and a recipe of it are still stored
C13_Witness ==
    /\ resp.op = "get_current_user"
    /\ resp.status = HTTP_401_UNAUTHORIZED
    /\ OfDeletedAccount(resp.token)
    /\ UnknownUser(resp.token)
    /\ \E e \in tokens : e.tok = resp.token /\ now < e.at + ExpiryTicks
    /\ \E d \in recipes : \E u \in users : d.author = u.username

(***************************************************************************)
(* C14, as claimed: the recipe returned by an add_recipe answered 200, and *)
(* the recipe it stored, has the author of the acting identity, the title, *)
(* ingredients, instructions and categories of the payload, and a comments *)
(* sequence that is present and empty.  The document add_recipe inserts    *)
(* and returns has no comments key.                                        *)
(***************************************************************************)
C14_AddRecipeResult ==
    [][(Answers({"add_recipe"}) /\ resp'.status = HTTP_200_OK)
       => \E d \in recipes' \ recipes :
             /\ WithoutId(d) = resp'.doc
             /\ RecipeOf(d) = [resp'.recipe EXCEPT !.author = resp'.actor]
             /\ d.has_comments
             /\ d.comments = <<>>]_vars

\* the part of C14 that the code satisfies: the five fields, and no comment
C14_AddRecipeFields ==
    [][(Answers({"add_recipe"}) /\ resp'.status = HTTP_200_OK)
       => \E d \in recipes' \ recipes :
             /\ WithoutId(d) = resp'.doc
             /\ RecipeOf(d) = [resp'.recipe EXCEPT !.author = resp'.actor]
             /\ d.comments = <<>>]_vars

(***************************************************************************)
(* A step of the request p from one place of its handler to another.       *)
(***************************************************************************)
Step(p, from, to) == inflight[p].pc = from /\ inflight'[p].pc = to
DeleteUserCalls ==
    <<"users.find_one", "users.delete_one", "recipes.delete_many", "recipes.update_many">>

(***************************************************************************)
(* C15: a delete_user request runs its cleanup only after its delete_one   *)
(* removed the user record, runs delete_many and then update_many, each    *)
(* with the effect of that call, and returns success only after both: the  *)
(* calls of a request that returns success are find_one (the resolver),    *)
(* delete_one, delete_many, update_many, in this order.  A request whose   *)
(* delete_one removed nothing returns without a cleanup step.              *)
(***************************************************************************)
C15_CleanupOrder ==
    [][\A p \in Procs :
          (/\ inflight[p].req.op = "delete_user"
           /\ inflight'[p].pc \notin {inflight[p].pc, "crashed"})
          => LET A == inflight[p].req.actor
             IN  \/ /\ Step(p, "delete_one", "idle")
                    /\ \A u \in users :
                          ~delete_user_filter(u, convert_str_to_objectid(inflight[p].req.id), A)
                    /\ users' = users
                    /\ recipes' = recipes
                 \/ /\ Step(p, "delete_one", "delete_many")
                    /\ \E u \in users : u.username = A /\ users' = users \ {u}
                    /\ recipes' = recipes
                 \/ /\ Step(p, "delete_many", "update_many")
                    /\ recipes' = {d \in recipes : d.author # A}
                    /\ users' = users
                 \/ /\ Step(p, "update_many", "return")
                    /\ recipes' = {[d EXCEPT !.comments = Others(@, A)] : d \in recipes}
                    /\ users' = users
                 \/ /\ Step(p, "return", "idle")
                    /\ inflight[p].req.status = HTTP_200_OK
                    /\ inflight[p].req.calls = DeleteUserCalls
                    /\ users' = users
                    /\ recipes' = recipes]_vars

\* a delete_user request is about to return success after it removed a recipe
\* of its user and pulled a comment of its user from a recipe that stays
C15_Witness ==
    \E p \in Procs :
       /\ Working(p, "return")
       /\ inflight[p].req.op = "delete_user"
       /\ inflight[p].req.calls = DeleteUserCalls
       /\ \A u \in users : u.username # inflight[p].req.actor
       /\ \A d \in recipes : d.author # inflight[p].req.actor
       /\ \E d \in recipes : d.has_comments /\ d.comments = <<>>
       /\ oid_count = MaxOid

(***************************************************************************)
(* C16: the cascade of delete_user is three calls made in three steps: the *)
(* step that deletes the user record of A leaves every recipe and comment  *)
(* as it is, and the step that deletes the recipes of A leaves the         *)
(* comments of A on the other recipes.  Between these steps, and for good  *)
(* after a crash between them, the user record of A is gone while recipes  *)
(* and comments of A are stored (C16_Witness).                             *)
(***************************************************************************)
C16_NotAtomic ==
    [][\A p \in Procs :
          inflight[p].req.op = "delete_user" =>
             LET A == inflight[p].req.actor
             IN  /\ Step(p, "delete_one", "delete_many")
                    => /\ recipes' = recipes
                       /\ inflight'[p].req.calls =
                             Append(inflight[p].req.calls, "users.delete_one")
                 /\ Step(p, "delete_many", "update_many")
                    => /\ \A d \in recipes : d.author # A => d \in recipes'
                       /\ inflight'[p].req.calls =
                             Append(inflight[p].req.calls, "recipes.delete_many")
                 /\ Step(p, "update_many", "return")
                    => inflight'[p].req.calls =
                          Append(inflight[p].req.calls, "recipes.update_many")]_vars

\* the server crashed after a delete_user request deleted the user record and
\* before its cleanup: a recipe of the deleted user, and a comment of the
\* deleted user on a recipe of another user, stay stored
C16_Witness ==
    \E p \in Procs :
       /\ Working(p, "crashed")
       /\ inflight[p].req.op = "delete_user"
       /\ inflight[p].req.calls = <<"users.find_one", "users.delete_one">>
       /\ \A u \in users : u.username # inflight[p].req.actor
       /\ \E d \in recipes : d.author = inflight[p].req.actor
       /\ \E d \in recipes :
             /\ d.author # inflight[p].req.actor
             /\ \E i \in 1..Len(d.comments) : d.comments[i].author = inflight[p].req.actor

(***************************************************************************)
(* C17, as claimed: no step changes the author of a stored recipe.         *)
(* edit_recipe writes the author of its payload.                           *)
(***************************************************************************)
C17_AuthorImmutable ==
    [][\A d \in recipes : \A e \in recipes' : e.id = d.id => e.author = d.author]_vars

\* the part of C17 that the code satisfies: every operation but edit_recipe
\* leaves the authors, and edit_recipe stores the author its payload names
C17_AuthorFromPayload ==
    [][\A d \in recipes : \A e \in recipes' :
          (e.id = d.id /\ e.author # d.author)
          => /\ resp'.op = "edit_recipe"
             /\ resp'.status = HTTP_200_OK
             /\ resp'.actor = d.author
             /\ e.author = resp'.recipe.author]_vars

(***************************************************************************)
(* C18, as claimed: when no request is in flight and the server has not    *)
(* crashed, a username whose user record a delete_user request deleted     *)
(* (in this specification no account is registered, so a username without  *)
(* a record is one whose delete_user returned success) is the author of no *)
(* recipe and of no comment.  A request of that user that resolved its     *)
(* identity before the deletion writes after the cleanup.                  *)
(***************************************************************************)
C18_NoOrphans ==
    \A A \in Usernames :
       (/\ \A p \in Procs : Working(p, "idle")
        /\ \A u \in users : u.username # A)
       => \A d \in recipes :
             /\ d.author # A
             /\ \A i \in 1..Len(d.comments) : d.comments[i].author # A

(***************************************************************************)
(* C19, as claimed: a get_current_user or delete_user request presenting a *)
(* token issued for a deleted user record is answered 401 and changes      *)
(* nothing, also after the username was registered again.                  *)
(***************************************************************************)
C19_TokenOfAccountOnly ==
    [][(Answers({"get_current_user", "delete_user"}) /\ OfDeletedAccount(resp'.token))
       => (/\ resp'.status = HTTP_401_UNAUTHORIZED
           /\ users' = users
           /\ recipes' = recipes)]_vars

(***************************************************************************)
(* C19, amended: a token stands for its username.  Such a request is       *)
(* answered 401, and changes nothing, while no user record has the token's *)
(* username; once a record with that username is stored and the token is   *)
(* not expired, the token resolves to it: get_current_user answers 200     *)
(* with that username, and delete_user on the id of the new record deletes *)
(* the new record.                                                         *)
(***************************************************************************)
C19_TokenOfUsername ==
    [][(Answers({"get_current_user", "delete_user"}) /\ OfDeletedAccount(resp'.token))
       => IF UnknownUser(resp'.token)
          THEN /\ resp'.status = HTTP_401_UNAUTHORIZED
               /\ users' = users
               /\ recipes' = recipes
          ELSE \A e \in tokens :
                  (e.tok = resp'.token /\ now < e.at + ExpiryTicks)
                  => /\ resp'.actor = e.tok.username
                     /\ resp'.op = "get_current_user"
                        => (resp'.status = HTTP_200_OK /\ resp'.user = e.tok.username)
                     /\ \A u \in users :
                           (/\ resp'.op = "delete_user"
                            /\ u.username = e.tok.username
                            /\ resp'.id = OidStr(u.id))
                           => (resp'.status = HTTP_200_OK /\ users' = users \ {u})]_vars

\* a token issued for a deleted account deleted the account registered later
\* under the same username
C19_Witness ==
    /\ resp.op = "delete_user"
    /\ resp.status = HTTP_200_OK
    /\ OfDeletedAccount(resp.token)
    /\ \A u \in StoreUsers : OidStr(u.id) # resp.id

(***************************************************************************)
(* The operations that take the identifier of a recipe or of a user.       *)
(***************************************************************************)
IdOps ==
    {"get_recipe", "get_all_recipe_comments", "edit_recipe", "delete_recipe",
     "add_recipe_comment", "delete_recipe_comment", "delete_user"}
Public == {"get_recipe", "get_all_recipe_comments"}

C21_CommentAppended ==
    [][/\ (Answers({"add_recipe_comment"}) /\ Resolved(resp') /\ Named(resp') # {})
          => /\ resp'.status = HTTP_200_OK
             /\ users' = users
             /\ \E d \in Named(resp') : \E e \in recipes' :
                   /\ recipes' = (recipes \ {d}) \cup {e}
                   /\ e.has_comments
                   /\ [e EXCEPT !.comments = d.comments,
                                !.has_comments = d.has_comments] = d
                   /\ Len(e.comments) = Len(d.comments) + 1
                   /\ SubSeq(e.comments, 1, Len(d.comments)) = d.comments
                   /\ LET c == e.comments[Len(e.comments)]
                      IN  /\ c.content \in CommentTexts
                          /\ c.author = resp'.actor
                          /\ \A i \in 1..Len(d.comments) : d.comments[i].id # c.id
       /\ (Answers({"add_recipe_comment"}) /\ Resolved(resp')
             /\ is_valid_objectid(resp'.id) /\ Named(resp') = {})
          => /\ resp'.status = HTTP_404_NOT_FOUND
             /\ resp'.detail = "Recipe not found"
             /\ users' = users
             /\ recipes' = recipes]_vars

\* an identity that does not own the recipe has added a second comment to it,
\* behind the comment the recipe already had
C21_Witness ==
    /\ resp.op = "add_recipe_comment"
    /\ resp.status = HTTP_200_OK
    /\ \E d \in Named(resp) :
          /\ d.author # resp.actor
          /\ Len(d.comments) = 2
          /\ d.comments[1].id # d.comments[2].id
          /\ d.comments[2].author = resp.actor

(***************************************************************************)
(* C22: get_all_recipe_comments on a well-formed id changes nothing; when  *)
(* no recipe has the id it answers 404 'Recipe not found', as get_recipe   *)
(* does, and when a recipe has it, it answers 200 with the comments of     *)
(* that recipe in their stored order (none when the recipe has none).      *)
(***************************************************************************)
C22_MissingRecipeNotFound ==
    [][(Answers({"get_all_recipe_comments"}) /\ is_valid_objectid(resp'.id))
       => /\ users' = users
          /\ recipes' = recipes
          /\ IF Named(resp') = {}
             THEN /\ resp'.status = HTTP_404_NOT_FOUND
                  /\ resp'.detail = "Recipe not found"
             ELSE /\ resp'.status = HTTP_200_OK
                  /\ \E d \in Named(resp') : resp'.doc.comments = d.comments]_vars

\* what the handlers do: get_recipe answers 404 'Recipe not found' on the id of
\* no recipe, get_all_recipe_comments answers 500; on the id of a recipe
\* get_all_recipe_comments answers its comments; neither changes the store
C22_CommentsOfExisting ==
    [][(Answers(Public) /\ is_valid_objectid(resp'.id))
       => /\ users' = users
          /\ recipes' = recipes
          /\ IF Named(resp') = {}
             THEN IF resp'.op = "get_recipe"
                  THEN /\ resp'.status = HTTP_404_NOT_FOUND
                       /\ resp'.detail = "Recipe not found"
                  ELSE resp'.status = HTTP_500_INTERNAL_SERVER_ERROR
             ELSE /\ resp'.status = HTTP_200_OK
                  /\ \E d \in Named(resp') : resp'.doc.comments = d.comments]_vars

\* the comments of a well-formed id that no recipe has were asked for, and
\* the answer was the internal failure
C22_InternalFailure ==
    /\ resp.op = "get_all_recipe_comments"
    /\ is_valid_objectid(resp.id)
    /\ Named(resp) = {}
    /\ resp.status = HTTP_500_INTERNAL_SERVER_ERROR

=============================================================================
